---- MODULE Spec2Model ----
(***************************************************************************)
(* A model of the quiz dialog of the Anki LLM interactive quiz add-on      *)
(* (src/__init__.py): one LLMQuizDialog, its Qt foreground (button clicks  *)
(* and closures posted with mw.taskman.run_on_main) and the daemon worker  *)
(* threads started by send_message, each running process_response.         *)
(*                                                                         *)
(* Texts are sequences of lexemes: a lexeme is a tag, a visible character, *)
(* a white-space character or a fixed literal of the program.              *)
(***************************************************************************)
EXTENDS Integers, Sequences, FiniteSets, TLC

\* ---------------------------------------------------------------- bounds
\* accepted (non-blank) sends per dialog
MaxTurns == 2
\* what the backend sends to one dialog before it falls silent: responses,
\* refused connections and lexemes of reply text, counted together
MaxTraffic == 2
\* largest configured max_retries
MaxRetriesCap == 2
\* lines of one streamed reply, when the decoder is explored on its own
MaxLines == 3

\* ---------------------------------------------------------------- texts
ThinkOpen == "<think>"
ThinkClose == "</think>"
OtherTag == "<b>"
QuestionMarker == "Question:"
Tags == {ThinkOpen, ThinkClose, OtherTag}
Whitespace == {" ", "\n"}
\* what a backend may put into a reply
Lexeme == {ThinkOpen, ThinkClose, "x", "\n", QuestionMarker, "q?"}
\* what a backend may put into one streamed delta
DeltaLexeme == {ThinkOpen, ThinkClose, "x", "\n"}

\* the card's fields (self.question, self.answer)
question == <<"q?">>
answer == <<"a!">>

\* str.lower() on a lexeme
LowerLexeme(l) == IF l = QuestionMarker THEN "question:" ELSE l
Lower(s) == [i \in 1..Len(s) |-> LowerLexeme(s[i])]

\* number of characters of a lexeme
UnexpectedFormat == "Error: Unexpected response format from LLM service."
CharLen(l) ==
    CASE l = ThinkOpen -> 7
      [] l = ThinkClose -> 8
      [] l = OtherTag -> 3
      [] l \in {QuestionMarker, "question:"} -> 9
      [] l \in {"q?", "a!"} -> 2
      [] l = UnexpectedFormat -> 51
      [] OTHER -> 1

RECURSIVE TextLen(_)
TextLen(s) == IF s = <<>> THEN 0 ELSE CharLen(Head(s)) + TextLen(Tail(s))

SeqsUpTo(S, n) == UNION {[1..k -> S] : k \in 0..n}

\* s.strip(): leading and trailing white space removed
RECURSIVE LStrip(_, _)
LStrip(s, chars) ==
    IF s # <<>> /\ Head(s) \in chars THEN LStrip(Tail(s), chars) ELSE s
RECURSIVE RStrip(_, _)
RStrip(s, chars) ==
    IF s # <<>> /\ s[Len(s)] \in chars
    THEN RStrip(SubSeq(s, 1, Len(s) - 1), chars) ELSE s
Strip(s) == RStrip(LStrip(s, Whitespace), Whitespace)

\* re.sub(r'<think>.*?</think>', '', text, flags=re.DOTALL): leftmost match,
\* shortest span; an opening tag with no closing tag after it is left alone
RECURSIVE RemoveThinkSpans(_)
RemoveThinkSpans(s) ==
    IF s = <<>> THEN <<>>
    ELSE IF Head(s) = ThinkOpen /\ \E i \in 2..Len(s) : s[i] = ThinkClose
         THEN LET j == CHOOSE i \in 2..Len(s) :
                          /\ s[i] = ThinkClose
                          /\ \A k \in 2..(i - 1) : s[k] # ThinkClose
              IN RemoveThinkSpans(SubSeq(s, j + 1, Len(s)))
         ELSE <<Head(s)>> \o RemoveThinkSpans(Tail(s))

\* re.sub(r'<[^>]+>', '', cleaned)
RemoveTags(s) == SelectSeq(s, LAMBDA l : l \notin Tags)

clean_response_text(text) ==
    Strip(RemoveTags(LStrip(RemoveThinkSpans(text), {"\n"})))

\* ------------------------------------------------- non-streaming replies
\* text.split('\n') and '\n'.join(lines)
RECURSIVE SplitLines(_)
SplitLines(s) ==
    IF \A i \in 1..Len(s) : s[i] # "\n" THEN <<s>>
    ELSE LET j == CHOOSE i \in 1..Len(s) :
                      s[i] = "\n" /\ \A k \in 1..(i - 1) : s[k] # "\n"
         IN <<SubSeq(s, 1, j - 1)>> \o SplitLines(SubSeq(s, j + 1, Len(s)))
RECURSIVE JoinLines(_)
JoinLines(ls) ==
    IF ls = <<>> THEN <<>>
    ELSE IF Len(ls) = 1 THEN ls[1]
    ELSE ls[1] \o <<"\n">> \o JoinLines(Tail(ls))

StartsWith(s, l) == s # <<>> /\ s[1] = l
Contains(s, sub) ==
    \E i \in 1..(Len(s) - Len(sub) + 1) : SubSeq(s, i, i + Len(sub) - 1) = sub
\* text[:30]; a lexeme cut by the slice cannot hold the whole question
Take30(s) ==
    LET n == CHOOSE k \in 0..Len(s) :
                 /\ TextLen(SubSeq(s, 1, k)) <= 30
                 /\ (k < Len(s) => TextLen(SubSeq(s, 1, k + 1)) > 30)
    IN SubSeq(s, 1, n)

\* the echo filter of add_assistant_response
RepeatsQuestion(cleaned) ==
    \/ StartsWith(Lower(cleaned), "question:")
    \/ Contains(Take30(Lower(cleaned)), Lower(question))
DropQuestionLines(cleaned) ==
    JoinLines(SelectSeq(SplitLines(cleaned),
                        LAMBDA line : ~StartsWith(Lower(line), "question:")))
FilterEcho(cleaned) ==
    IF RepeatsQuestion(cleaned) THEN DropQuestionLines(cleaned) ELSE cleaned

\* the body of a 200 reply to a non-streaming request
ReplyTexts(n) == SeqsUpTo(Lexeme, n)
Bodies(n) ==
    [shape : {"message", "text"}, content : ReplyTexts(n), null : {FALSE}]
    \cup [shape : {"message"}, content : {<<>>}, null : {TRUE}]
    \cup [shape : {"not_json", "no_choices", "neither"}, content : {<<>>},
          null : {FALSE}]

extract_response_text(body) ==
    IF body.shape \in {"message", "text"} THEN body.content
    ELSE <<UnexpectedFormat>>

\* --------------------------------------------------------- system prompt
\* a template is a sequence of literal text and replacement fields
TemplateText == "tutor instructions"
Templates ==
    { <<TemplateText, "{question}", "{answer}">>,
      <<TemplateText, "{question}">>,
      <<TemplateText>>,
      <<"{question}", "{card}", "{answer}">>,
      <<"{question}", "{answer}", "{}">> }

\* str.format(question=..., answer=...): fields are replaced left to right,
\* and the first field that cannot be replaced raises
RECURSIVE Format(_)
Format(tpl) ==
    IF tpl = <<>> THEN [raised |-> "none", text |-> <<>>]
    ELSE LET h == Head(tpl)
             rest == Format(Tail(tpl))
             piece == CASE h = "{question}" -> question
                        [] h = "{answer}" -> answer
                        [] OTHER -> <<h>>
         IN IF h = "{card}" THEN [raised |-> "KeyError", text |-> <<>>]
            ELSE IF h = "{}" THEN [raised |-> "IndexError", text |-> <<>>]
            ELSE IF rest.raised # "none" THEN rest
            ELSE [raised |-> "none", text |-> piece \o rest.text]

BasicPrompt ==
    <<"The user is answering: '">> \o question \o <<"'. Correct answer: '">>
        \o answer \o <<"'. Evaluate their response.">>

\* ----------------------------------------------------------------- state
VARIABLES
    config,                 \* self.config, read once in __init__
    input_field,            \* the text of self.input_field
    conversation_history,   \* self.conversation_history
    chat_display,           \* the blocks of self.chat_display
    send_enabled,           \* self.send_button.isEnabled()
    is_streaming,           \* self.is_streaming
    quiz_completed,         \* self.quiz_completed
    closed,                 \* the dialog was accepted or rejected by the user
    main_queue,             \* closures handed to mw.taskman.run_on_main
    threads,                \* the worker threads started by send_message
    started,                \* how many of them were started
    budget                  \* what the backend may still send

vars == <<config, input_field, conversation_history, chat_display, send_enabled,
          is_streaming, quiz_completed, closed, main_queue, threads, started,
          budget>>

Message(role, content) == [role |-> role, content |-> content]
Block(label, text) == [label |-> label, text |-> text]
Closure(op, text, w) == [op |-> op, text |-> text, w |-> w]

\* a worker thread: its place in process_response (pc), its local variables
\* (retries, full_response, e, llm_response), and a record of what it did:
\* the number of requests it sent, the last request, the status code of the
\* last response, what the network did last, the closures it posted, and the
\* lines response.iter_lines() has delivered to it
NoRequest == [url |-> "", authorization |-> "", messages |-> <<>>, stream |-> FALSE]
ThreadIds == 1..MaxTurns
IdleThread ==
    [pc |-> "idle", retries |-> 0, full_response |-> <<>>, e_bound |-> FALSE,
     e |-> <<>>, llm_response |-> <<>>, attempts |-> 0,
     request |-> NoRequest, status |-> 0, outcome |-> "", posted |-> <<>>,
     lines |-> <<>>]

LocalUrl == "http://localhost:1234/v1/chat/completions"
HostedUrl == "https://api.openai.com/v1/chat/completions"
AllConfigs ==
    [max_retries : (-1)..MaxRetriesCap,
     stream_responses : BOOLEAN,
     use_openai : BOOLEAN,
     openai_api_key : {"", "sk-key"},
     system_prompt : Templates]
\* the configurations explored: every max_retries with and without streaming;
\* the provider settings and the template, which only fill in the request and
\* the system message, vary one at a time
DefaultTemplate == <<TemplateText, "{question}", "{answer}">>
IsLocal(cfg) == ~cfg.use_openai /\ cfg.openai_api_key = ""
Configs ==
    {cfg \in AllConfigs :
        \/ cfg.system_prompt = DefaultTemplate /\ IsLocal(cfg)
        \/ /\ cfg.max_retries = 1
           /\ cfg.stream_responses
           /\ (cfg.system_prompt = DefaultTemplate \/ IsLocal(cfg))}

\* display_question, called by __init__; an exception other than KeyError
\* leaves display_question early and __init__ catches it
display_question(cfg) ==
    LET f == Format(cfg.system_prompt)
        system_prompt == IF f.raised = "none" THEN f.text ELSE BasicPrompt
    IN IF f.raised \in {"none", "KeyError"}
       THEN [history |-> <<Message("system", system_prompt)>>,
             display |-> <<Block("Quiz", <<"Question: ">> \o question)>>]
       ELSE [history |-> <<>>, display |-> <<>>]

\* the dialog after LLMQuizDialog(card, mw), as dialog.exec() shows it
Init ==
    /\ config \in Configs
    /\ input_field = <<>>
    /\ conversation_history = display_question(config).history
    /\ chat_display = display_question(config).display
    /\ send_enabled = TRUE
    /\ is_streaming = FALSE
    /\ quiz_completed = FALSE
    /\ closed = FALSE
    /\ main_queue = <<>>
    /\ threads = [w \in ThreadIds |-> IdleThread]
    /\ started = 0
    /\ budget = MaxTraffic

\* ------------------------------------------------------------ foreground
UserInputs == {<<>>, <<" ", "\n">>, <<"x", " ">>}

\* a loop that runs once more: retries <= max_retries
WhileConditionOffByOne(retries) == retries <= config.max_retries
\* while retries < max_retries
WhileCondition(retries) == retries < config.max_retries
LoopPc(retries) == IF WhileCondition(retries) THEN "post" ELSE "enable_err"

\* the button left enabled while the worker runs
EnabledDuringProcessingForgotten == TRUE
\* "Disable send button during processing": setEnabled(False)
EnabledDuringProcessing == FALSE

\* a test of the text as typed: if not user_input
NotUserInput(user_input) == user_input = <<>>
\* if not user_input.strip()
NotUserInputStrip(user_input) == Strip(user_input) = <<>>

\* the user leaves user_input in the input field and clicks the button; a
\* click on a disabled button is not delivered to send_message
send_message(user_input) ==
    /\ ~closed
    /\ send_enabled
    /\ IF NotUserInputStrip(user_input)
       THEN /\ input_field' = user_input
            /\ UNCHANGED <<config, conversation_history, chat_display,
                           send_enabled, is_streaming, quiz_completed, closed,
                           main_queue, threads, started, budget>>
       ELSE /\ started < MaxTurns
            /\ input_field' = <<>>
            /\ chat_display' = Append(chat_display, Block("You", user_input))
            /\ conversation_history' =
                   Append(conversation_history, Message("user", user_input))
            /\ send_enabled' = EnabledDuringProcessing
            /\ started' = started + 1
            /\ threads' = [threads EXCEPT ![started + 1] =
                               [IdleThread EXCEPT !.pc = LoopPc(0)]]
            /\ UNCHANGED <<config, is_streaming, quiz_completed, closed,
                           main_queue, budget>>

\* the text inserted where the cursor stands, before what was streamed so far
insert_stream_text_at_cursor(display, text) ==
    IF display = <<>> THEN <<Block("", text)>>
    ELSE [display EXCEPT ![Len(display)].text = text \o @]
\* cursor.movePosition(End); cursor.insertText(text)
append_stream_text_safely(display, text) ==
    IF display = <<>> THEN <<Block("", text)>>
    ELSE [display EXCEPT ![Len(display)].text = @ \o text]

\* the closure at the head of the queue runs on the main thread; the closure
\* of the generic handler reads the handler's variable e when it runs
ErrorVisible(c) == threads[c.w].e_bound
RunClosure(c) ==
    /\ chat_display' =
         CASE c.op = "error_connection" ->
                  Append(chat_display, Block("Error",
                      <<"Connection failed. Make sure the LLM service is running.">>))
           [] c.op = "error_timeout" ->
                  Append(chat_display, Block("Error", <<"Request timed out.">>))
           [] c.op = "error_exception" ->
                  IF ErrorVisible(c)
                  THEN Append(chat_display, Block("Error", threads[c.w].e))
                  ELSE chat_display
           [] c.op = "error_streaming" ->
                  Append(chat_display,
                         Block("Error", <<"Streaming failed: ">> \o c.text))
           [] c.op = "marker" -> Append(chat_display, Block("Quiz", <<>>))
           [] c.op = "delta" -> append_stream_text_safely(chat_display, c.text)
           [] c.op = "message" -> Append(chat_display, Block("Quiz", c.text))
           [] OTHER -> chat_display
    /\ send_enabled' = IF c.op = "enable" THEN TRUE ELSE send_enabled

run_on_main ==
    /\ main_queue # <<>>
    /\ RunClosure(Head(main_queue))
    /\ main_queue' = Tail(main_queue)
    /\ UNCHANGED <<config, input_field, conversation_history, is_streaming, quiz_completed,
                   closed, threads, started, budget>>

\* rate_card ends with self.accept(); the user may also close the window
rate_card ==
    /\ ~closed
    /\ closed' = TRUE
    /\ UNCHANGED <<config, input_field, conversation_history, chat_display, send_enabled,
                   is_streaming, quiz_completed, main_queue, threads, started,
                   budget>>

\* ---------------------------------------------------------------- worker
\* the request of one attempt, built from self.config and the history
Request ==
    LET hosted == config.use_openai /\ config.openai_api_key # ""
    IN [url |-> IF hosted THEN HostedUrl ELSE LocalUrl,
        authorization |-> IF hosted THEN config.openai_api_key ELSE "",
        messages |-> conversation_history,
        stream |-> config.stream_responses]

Attempted(t, outcome, status) ==
    [t EXCEPT !.attempts = @ + 1, !.request = Request, !.outcome = outcome,
              !.status = status]

\* APIKeyError caught by the clause that retries
ExceptClauseRetriesApiKey(exc) ==
    CASE exc \in {"requests.exceptions.ConnectionError", "APIKeyError"} ->
             "connection"
      [] exc = "requests.exceptions.Timeout" -> "timeout"
      [] OTHER -> "exception"
\* which except clause of process_response catches an exception
ExceptClause(exc) ==
    CASE exc = "requests.exceptions.ConnectionError" -> "connection"
      [] exc = "requests.exceptions.Timeout" -> "timeout"
      [] OTHER -> "exception"

\* the error posted after every failed attempt
RetriesExhaustedAlways(retries) == TRUE
\* if retries >= max_retries
RetriesExhausted(retries) == retries >= config.max_retries

\* the except clauses of process_response, entered by thread w in state t
Raise(w, t, exc, message) ==
    LET clause == ExceptClause(exc)
        retries == t.retries + 1
        op == IF clause = "connection" THEN "error_connection"
              ELSE IF clause = "timeout" THEN "error_timeout"
              ELSE "error_exception"
    IN IF clause \in {"connection", "timeout"}
       THEN /\ threads' = [threads EXCEPT ![w] =
                    [t EXCEPT !.retries = retries, !.pc = "sleep",
                              !.posted = IF RetriesExhausted(retries)
                                         THEN Append(@, op) ELSE @]]
            /\ main_queue' = IF RetriesExhausted(retries)
                             THEN Append(main_queue, Closure(op, <<>>, w))
                             ELSE main_queue
       ELSE /\ threads' = [threads EXCEPT ![w] =
                    [t EXCEPT !.e_bound = TRUE, !.e = message, !.pc = "break",
                              !.posted = Append(@, op)]]
            /\ main_queue' = Append(main_queue, Closure(op, <<>>, w))

PostExceptions ==
    {"requests.exceptions.ConnectionError", "requests.exceptions.Timeout",
     "requests.exceptions.InvalidURL"}

\* a backend that stays silent makes the request time out
Cost(exc) == IF exc = "requests.exceptions.Timeout" THEN 0 ELSE 1

\* requests.post raises
post_raises(w) ==
    /\ threads[w].pc = "post"
    /\ \E exc \in PostExceptions :
           /\ budget >= Cost(exc)
           /\ budget' = budget - Cost(exc)
           /\ Raise(w, Attempted(threads[w], exc, 0), exc, <<exc>>)
    /\ UNCHANGED <<config, input_field, conversation_history, chat_display, send_enabled,
                   is_streaming, quiz_completed, closed, started>>

StatusCodes == {200, 204, 401, 500}
\* a status error raised as the exception class of requests, which is retried
StatusErrorOfRequests(status) ==
    IF status = 401 THEN "APIKeyError"
    ELSE IF status # 200 THEN "requests.exceptions.ConnectionError"
    ELSE "none"
\* the exception process_response raises for a status code
StatusError(status) ==
    IF status = 401 THEN "APIKeyError"
    ELSE IF status # 200 THEN "ConnectionError"
    ELSE "none"
StatusMessage(status) ==
    IF status = 401 THEN <<"Invalid API key">>
    ELSE <<"API error: ", ToString(status)>>

\* requests.post returns a response; with stream set, handle_stream_response
\* starts: it sets is_streaming and posts the marker
post_returns(w) ==
    /\ threads[w].pc = "post"
    /\ budget >= 1
    /\ budget' = budget - 1
    /\ \E status \in StatusCodes :
         LET t == Attempted(threads[w], "response", status)
         IN IF StatusError(status) # "none"
            THEN /\ Raise(w, t, StatusError(status), StatusMessage(status))
                 /\ UNCHANGED is_streaming
            ELSE IF config.stream_responses
            THEN /\ is_streaming' = TRUE
                 /\ main_queue' = Append(main_queue, Closure("marker", <<>>, w))
                 /\ threads' = [threads EXCEPT ![w] =
                        [t EXCEPT !.pc = "iter_lines", !.full_response = <<>>,
                                  !.posted = Append(@, "marker"),
                                  !.lines = <<>>]]
            ELSE /\ threads' = [threads EXCEPT ![w] = [t EXCEPT !.pc = "json"]]
                 /\ UNCHANGED <<is_streaming, main_queue>>
    /\ UNCHANGED <<config, input_field, conversation_history, chat_display, send_enabled,
                   quiz_completed, closed, started>>

\* time.sleep(1), then the loop condition
sleep(w) ==
    /\ threads[w].pc = "sleep"
    /\ threads' = [threads EXCEPT ![w].pc = LoopPc(threads[w].retries)]
    /\ UNCHANGED <<config, input_field, conversation_history, chat_display, send_enabled,
                   is_streaming, quiz_completed, closed, main_queue, started,
                   budget>>

\* break leaves the clause "except Exception as e", which unbinds e
break(w) ==
    /\ threads[w].pc = "break"
    /\ threads' = [threads EXCEPT ![w].pc = "enable_err", ![w].e_bound = FALSE]
    /\ UNCHANGED <<config, input_field, conversation_history, chat_display, send_enabled,
                   is_streaming, quiz_completed, closed, main_queue, started,
                   budget>>

\* a thread that has returned: its local variables are gone, and of the
\* record of what it did only the last outcome is kept
Done(t) ==
    [IdleThread EXCEPT !.pc = "done", !.outcome = t.outcome,
                       !.status = t.status]

PostEnable(w, pc) ==
    /\ threads[w].pc = pc
    /\ main_queue' = Append(main_queue, Closure("enable", <<>>, w))
    /\ threads' = [threads EXCEPT ![w] = Done(threads[w])]
    /\ UNCHANGED <<config, input_field, conversation_history, chat_display, send_enabled,
                   is_streaming, quiz_completed, closed, started, budget>>

\* a thread that ends without posting the closure
ReturnWithoutEnable(w) ==
    /\ threads[w].pc = "enable_err"
    /\ threads' = [threads EXCEPT ![w] = Done(threads[w])]
    /\ UNCHANGED <<config, input_field, conversation_history, chat_display, send_enabled,
                   is_streaming, quiz_completed, closed, main_queue, started,
                   budget>>
\* "Re-enable send button on main thread", then return
enable_after_reply(w) == PostEnable(w, "enable_ok")
\* "Re-enable send button on error", after the loop
enable_after_loop(w) == PostEnable(w, "enable_err")

\* add_assistant_response, as far as it decides what is recorded
AssistantText(response) == FilterEcho(clean_response_text(response))
RecordsReply(cleaned) == Strip(cleaned) # <<>>

\* the non-streaming branch: response.json(), extract_response_text and
\* add_assistant_response (a null content makes re.sub raise TypeError)
read_reply(w) ==
    /\ threads[w].pc = "json"
    /\ \E body \in Bodies(budget) :
         /\ budget' = budget - Len(body.content)
         /\ IF body.shape = "not_json"
            THEN /\ Raise(w, [threads[w] EXCEPT !.outcome = "JSONDecodeError"],
                          "JSONDecodeError", <<"Expecting value">>)
                 /\ UNCHANGED conversation_history
            ELSE IF body.null
            THEN /\ Raise(w, [threads[w] EXCEPT !.outcome = "TypeError"],
                          "TypeError",
                          <<"expected string or bytes-like object">>)
                 /\ UNCHANGED conversation_history
            ELSE LET llm_response == extract_response_text(body)
                     cleaned == AssistantText(llm_response)
                     t == [threads[w] EXCEPT !.pc = "enable_ok",
                                             !.outcome = "reply",
                                             !.llm_response = llm_response]
                 IN IF RecordsReply(cleaned)
                    THEN /\ conversation_history' =
                                Append(conversation_history,
                                       Message("assistant", cleaned))
                         /\ main_queue' =
                                Append(main_queue, Closure("message", cleaned, w))
                         /\ threads' = [threads EXCEPT ![w] =
                                [t EXCEPT !.posted = Append(@, "message")]]
                    ELSE /\ threads' = [threads EXCEPT ![w] = t]
                         /\ UNCHANGED <<conversation_history, main_queue>>
    /\ UNCHANGED <<config, input_field, chat_display, send_enabled, is_streaming,
                   quiz_completed, closed, started>>

\* the lines response.iter_lines() may deliver
Line(form, payload, content) ==
    [form |-> form, payload |-> payload, content |-> content]
ContentPayload == "{choices: [{delta: {content}}]}"
StreamLines ==
    {Line("blank", "", <<>>), Line("undecodable", "", <<>>),
     Line("comment", "", <<>>)}
    \cup {Line("data", p, <<>>) :
              p \in {"[DONE]", "not-json", "5", "{}", "{choices: [{delta: {}}]}",
                     ContentPayload}}
    \cup {Line("data", ContentPayload, <<l>>) : l \in DeltaLexeme}

\* json.loads(data)
JsonLoads(payload) ==
    IF payload \in {"[DONE]", "not-json"} THEN "JSONDecodeError"
    ELSE IF payload = "5" THEN "int"
    ELSE "dict"

\* a decoder without the inner handler: a payload json.loads rejects leaves
\* the loop
DecodeLineEscalates(line) ==
    IF line.form # "data" THEN [result |-> "skip", text |-> <<>>]
    ELSE IF JsonLoads(line.payload) = "JSONDecodeError"
    THEN [result |-> "raise", text |-> <<"Expecting value">>]
    ELSE IF line.payload = ContentPayload /\ line.content # <<>>
    THEN [result |-> "yield", text |-> line.content]
    ELSE [result |-> "skip", text |-> <<>>]
\* a decoder that drops a delta of white space: if content.strip()
DecodeLineStripped(line) ==
    IF line.form = "data" /\ line.payload = ContentPayload
           /\ Strip(line.content) # <<>>
    THEN [result |-> "yield", text |-> line.content]
    ELSE [result |-> "skip", text |-> <<>>]
\* the body of the loop over the lines: the line is skipped, its content is
\* yielded, or an exception leaves the loop
DecodeLine(line) ==
    IF line.form # "data" THEN [result |-> "skip", text |-> <<>>]
    ELSE IF JsonLoads(line.payload) = "JSONDecodeError"
    THEN [result |-> "skip", text |-> <<>>]
    ELSE IF JsonLoads(line.payload) # "dict"
    THEN [result |-> "raise", text |-> <<"argument of type 'int' is not iterable">>]
    ELSE IF line.payload = ContentPayload /\ line.content # <<>>
    THEN [result |-> "yield", text |-> line.content]
    ELSE [result |-> "skip", text |-> <<>>]

StreamError(w, t, outcome, message) ==
    /\ main_queue' = Append(main_queue, Closure("error_streaming", message, w))
    /\ threads' = [threads EXCEPT ![w] =
           [t EXCEPT !.pc = "finally", !.outcome = outcome,
                     !.posted = Append(@, "error_streaming")]]

\* one line of the stream
stream_line(w) ==
    /\ threads[w].pc = "iter_lines"
    /\ budget >= 1
    /\ budget' = budget - 1
    /\ \E line \in StreamLines :
         LET d == DecodeLine(line)
             t == [threads[w] EXCEPT !.lines = Append(@, line)]
         IN CASE d.result = "skip" ->
                   /\ threads' = [threads EXCEPT ![w] = t]
                   /\ UNCHANGED main_queue
              [] d.result = "yield" ->
                   /\ threads' = [threads EXCEPT ![w] =
                          [t EXCEPT !.full_response = @ \o d.text,
                                    !.posted = Append(@, "delta")]]
                   /\ main_queue' = Append(main_queue, Closure("delta", d.text, w))
              [] d.result = "raise" -> StreamError(w, t, "TypeError", d.text)
    /\ UNCHANGED <<config, input_field, conversation_history, chat_display, send_enabled,
                   is_streaming, quiz_completed, closed, started>>

\* the stream ends
stream_ends(w) ==
    /\ threads[w].pc = "iter_lines"
    /\ threads' = [threads EXCEPT ![w].pc = "finally",
                                  ![w].outcome = "stream_end"]
    /\ UNCHANGED <<config, input_field, conversation_history, chat_display, send_enabled,
                   is_streaming, quiz_completed, closed, main_queue, started,
                   budget>>

\* a failure of the transport that reaches the handlers of process_response
stream_breaks_retried(w) ==
    /\ threads[w].pc = "iter_lines"
    /\ Raise(w, [threads[w] EXCEPT !.outcome = "ChunkedEncodingError"],
             "requests.exceptions.ConnectionError", <<"Connection broken">>)
    /\ UNCHANGED <<config, input_field, conversation_history, chat_display,
                   send_enabled, is_streaming, quiz_completed, closed, started,
                   budget>>
\* the transport raises while the lines are read
stream_breaks(w) ==
    /\ threads[w].pc = "iter_lines"
    /\ StreamError(w, threads[w], "ChunkedEncodingError",
                   <<"Connection broken">>)
    /\ UNCHANGED <<config, input_field, conversation_history, chat_display, send_enabled,
                   is_streaming, quiz_completed, closed, started, budget>>

\* a finally clause that records nothing
CommitsNothing(full_response) == FALSE
\* if full_response
CommitsStream(full_response) == full_response # <<>>

\* the finally clause of handle_stream_response
stream_finally(w) ==
    /\ threads[w].pc = "finally"
    /\ is_streaming' = FALSE
    /\ conversation_history' =
           IF CommitsStream(threads[w].full_response)
           THEN Append(conversation_history,
                       Message("assistant",
                               clean_response_text(threads[w].full_response)))
           ELSE conversation_history
    /\ threads' = [threads EXCEPT ![w].pc = "enable_ok"]
    /\ UNCHANGED <<config, input_field, chat_display, send_enabled, quiz_completed, closed,
                   main_queue, started, budget>>

\* ------------------------------------------------------------------ spec
process_response(w) ==
    \/ post_raises(w)
    \/ post_returns(w)
    \/ sleep(w)
    \/ break(w)
    \/ read_reply(w)
    \/ stream_line(w)
    \/ stream_ends(w)
    \/ stream_breaks(w)
    \/ stream_finally(w)
    \/ enable_after_reply(w)
    \/ enable_after_loop(w)

Next ==
    \/ \E user_input \in UserInputs : send_message(user_input)
    \/ run_on_main
    \/ rate_card
    \/ \E w \in ThreadIds : process_response(w)

Spec == Init /\ [][Next]_vars

\* the Qt event loop keeps running the posted closures, a started thread keeps
\* running, and every network call returns or raises
FairSpec ==
    /\ Spec
    /\ WF_vars(run_on_main)
    /\ \A w \in ThreadIds : WF_vars(process_response(w))

\* ---------------------------------------------------- the decoder alone
\* handle_stream_response, from its first statement to the return of
\* process_response, on every stream of up to MaxLines lines: the reply to the
\* first turn of a dialog with the default configuration and streaming
StreamingConfig ==
    [max_retries |-> 1, stream_responses |-> TRUE, use_openai |-> FALSE,
     openai_api_key |-> "", system_prompt |-> DefaultTemplate]
FirstTurn == <<"x", " ">>
DecoderInit ==
    /\ config = StreamingConfig
    /\ input_field = <<>>
    /\ conversation_history =
           Append(display_question(config).history, Message("user", FirstTurn))
    /\ chat_display =
           Append(display_question(config).display, Block("You", FirstTurn))
    /\ send_enabled = FALSE
    /\ is_streaming = TRUE
    /\ quiz_completed = FALSE
    /\ closed = FALSE
    /\ main_queue = <<Closure("marker", <<>>, 1)>>
    /\ threads = [w \in ThreadIds |->
           IF w = 1
           THEN [Attempted(IdleThread, "response", 200) EXCEPT
                     !.pc = "iter_lines", !.posted = <<"marker">>]
           ELSE IdleThread]
    /\ started = 1
    /\ budget = MaxLines

DecoderNext ==
    \/ stream_line(1)
    \/ stream_ends(1)
    \/ stream_breaks(1)
    \/ stream_finally(1)
    \/ enable_after_reply(1)
    \/ run_on_main

DecoderSpec == DecoderInit /\ [][DecoderNext]_vars

\* ------------------------------------------------------------ vocabulary
Running == {w \in ThreadIds : threads[w].pc \notin {"idle", "done"}}
\* the thread is about to post the closure that enables the button and return
Returned(t) == t.pc \in {"enable_ok", "enable_err"}
ErrorOps ==
    {"error_connection", "error_timeout", "error_exception", "error_streaming"}
TransientErrorOps == {"error_connection", "error_timeout"}
Posted(t, ops) == \E i \in 1..Len(t.posted) : t.posted[i] \in ops
Queued(w, ops) ==
    \E i \in 1..Len(main_queue) : main_queue[i].w = w /\ main_queue[i].op \in ops

\* the n-th part of a sequence that a marked element starts, without the mark
StartsOf(seq, Mark(_)) == {i \in 1..Len(seq) : Mark(seq[i])}
Segment(seq, Mark(_), n) ==
    LET starts == StartsOf(seq, Mark)
        nth(k) == CHOOSE i \in starts : Cardinality({j \in starts : j <= i}) = k
    IN IF n > Cardinality(starts) THEN <<>>
       ELSE SubSeq(seq, nth(n) + 1,
                   IF n < Cardinality(starts) THEN nth(n + 1) - 1 ELSE Len(seq))
IsUser(m) == m.role = "user"
IsYou(b) == b.label = "You"
\* what the history and the display hold after the user message of turn w
TurnReply(w) == Segment(conversation_history, IsUser, w)
TurnBlocks(w) == Segment(chat_display, IsYou, w)
ErrorShown(w) ==
    \E i \in 1..Len(TurnBlocks(w)) : TurnBlocks(w)[i].label = "Error"


\* ---------------------------------------------------------------- claims
\* C1: with max_retries >= 1, a send whose every attempt failed with a
\* connection failure or a timeout never makes more than max_retries attempts,
\* and when it has left the loop it has made exactly max_retries attempts and
\* its error is on its way to the display or in it.
OnlyTransientFailures(t) == t.attempts >= 1 /\ t.retries = t.attempts
ErrorSurfaced(w) == Queued(w, TransientErrorOps) \/ ErrorShown(w)
ExactlyMaxRetriesAttempts ==
    \A w \in ThreadIds :
        LET t == threads[w]
        IN (config.max_retries >= 1 /\ OnlyTransientFailures(t)) =>
               /\ t.attempts <= config.max_retries
               /\ Returned(t) =>
                      /\ t.attempts = config.max_retries
                      /\ Posted(t, TransientErrorOps)
                      /\ ErrorSurfaced(w)
\* two attempts out of max_retries = 2 failed, and the error is displayed
RetriesExhaustedShown ==
    \E w \in ThreadIds :
        /\ config.max_retries = 2
        /\ threads[w].pc = "enable_err"
        /\ threads[w].attempts = 2
        /\ threads[w].retries = 2
        /\ ErrorShown(w)

\* C2: a send whose attempt k+1 succeeds after k failures with a connection
\* failure or a timeout (k < max_retries) has made exactly k+1 attempts, has no
\* error entry posted, queued or displayed, and when the attempt has returned
\* the reply it produced is the assistant message of the turn.
Succeeded(t) == t.outcome \in {"stream_end", "reply"} /\ t.pc # "done"
RawReply(t) ==
    IF config.stream_responses THEN t.full_response ELSE t.llm_response
RecordedReply(t) ==
    IF config.stream_responses THEN clean_response_text(t.full_response)
    ELSE AssistantText(t.llm_response)
ReplyDelivered(w) ==
    LET t == threads[w]
        recorded == IF config.stream_responses THEN t.full_response # <<>>
                    ELSE Strip(RecordedReply(t)) # <<>>
    IN TurnReply(w) = IF recorded
                      THEN <<Message("assistant", RecordedReply(t))>>
                      ELSE <<>>
SuccessAfterRetries ==
    \A w \in ThreadIds :
        LET t == threads[w]
        IN Succeeded(t) =>
               /\ t.retries < config.max_retries
               /\ t.attempts = t.retries + 1
               /\ ~Posted(t, ErrorOps)
               /\ ~Queued(w, ErrorOps)
               /\ ~ErrorShown(w)
               /\ (Returned(t) => ReplyDelivered(w))
\* the second attempt succeeded and its reply is in the history
SecondAttemptSucceeded ==
    \E w \in ThreadIds :
        /\ threads[w].pc = "enable_ok"
        /\ Succeeded(threads[w])
        /\ threads[w].retries = 1
        /\ threads[w].attempts = 2
        /\ TurnReply(w) # <<>>

\* C3: after a response with status 401 the thread is in the handler that
\* ends the send, or past it, with the authentication error as its exception:
\* it is never waiting to retry nor sending again, whatever max_retries is.
AuthFailed(t) == t.outcome = "response" /\ t.status = 401
AuthFailureEndsSend ==
    \A w \in ThreadIds :
        LET t == threads[w]
        IN AuthFailed(t) =>
               /\ t.pc \in {"break", "enable_err", "done"}
               /\ t.pc # "done" =>
                      /\ t.e = <<"Invalid API key">>
                      /\ t.retries = t.attempts - 1
                      /\ Posted(t, {"error_exception"})
\* a first attempt answered 401 ended the send although retries remained
AuthFailureWithRetriesLeft ==
    \E w \in ThreadIds :
        /\ AuthFailed(threads[w])
        /\ threads[w].pc = "enable_err"
        /\ threads[w].attempts = 1
        /\ config.max_retries = 2

\* C4 as stated: a status outside 2xx other than 401, or an exception other
\* than a connection failure or a timeout, ends the send at once, and a 2xx
\* status is not treated as a failure.
OtherExceptions ==
    {"requests.exceptions.InvalidURL", "JSONDecodeError", "TypeError",
     "ChunkedEncodingError"}
Ending == {"break", "finally", "enable_ok", "enable_err", "done"}
Responded(t, statuses) == t.outcome = "response" /\ t.status \in statuses
Only2xxSucceeds ==
    \A w \in ThreadIds :
        LET t == threads[w]
        IN /\ Responded(t, StatusCodes \ (200..299 \cup {401})) => t.pc \in Ending
           /\ t.outcome \in OtherExceptions => t.pc \in Ending
           /\ Responded(t, 200..299) => t.pc \in {"iter_lines", "json"}
\* C4 as amended: every status other than 200 and 401 (the other 2xx statuses
\* included), and every exception other than a connection failure or a
\* timeout, ends the send at once; a 200 status is not treated as a failure.
Only200Succeeds ==
    \A w \in ThreadIds :
        LET t == threads[w]
        IN /\ Responded(t, StatusCodes \ {200, 401}) =>
                  /\ t.pc \in {"break", "enable_err", "done"}
                  /\ t.pc # "done" => t.retries = t.attempts - 1
           /\ t.outcome \in OtherExceptions => t.pc \in Ending
           /\ Responded(t, {200}) => t.pc \in {"iter_lines", "json"}
\* a first attempt answered 500 ended the send although retries remained
ServerErrorWithRetriesLeft ==
    \E w \in ThreadIds :
        /\ Responded(threads[w], {500})
        /\ threads[w].pc = "enable_err"
        /\ threads[w].attempts = 1
        /\ config.max_retries = 2

\* C5 as stated: when the transport fails after a delta was decoded, the turn
\* leaves no assistant message in the history.
StreamBroken(t) == t.outcome = "ChunkedEncodingError" /\ t.full_response # <<>>
TruncatedReplyDiscarded ==
    \A w \in ThreadIds :
        (StreamBroken(threads[w]) /\ Returned(threads[w])) => TurnReply(w) = <<>>

\* C6 as stated: once the dialog is closed, no step changes the display, the
\* history or the send button.
LateCallbacksDropped ==
    [][closed => /\ chat_display' = chat_display
                 /\ conversation_history' = conversation_history
                 /\ send_enabled' = send_enabled]_vars

\* C7: at most one worker thread runs; while one runs or a closure of it is
\* still queued the button is disabled; every accepted turn started its own
\* thread at once (none is queued).
UserTurns == Cardinality(StartsOf(conversation_history, IsUser))
OneSendInFlight ==
    /\ Cardinality(Running) <= 1
    /\ (Running # {} \/ main_queue # <<>>) => ~send_enabled
    /\ UserTurns = started
    /\ \A w \in ThreadIds : (w <= started) <=> (threads[w].pc # "idle")
\* a second turn is in flight after the first one resolved
SecondSendInFlight == threads[1].pc = "done" /\ threads[2].pc = "post"

\* C8: whenever the button is disabled, it is enabled again later with no
\* worker running.
AwaitingInput == send_enabled /\ Running = {}
SendReenabled == (~send_enabled) ~> AwaitingInput
\* the button is enabled again after a turn whose stream broke
ReenabledAfterBrokenStream ==
    \E w \in ThreadIds :
        /\ threads[w].outcome = "ChunkedEncodingError"
        /\ threads[w].pc = "done"
        /\ AwaitingInput

\* C9 as stated: a completed turn whose raw text cleans to the empty string
\* leaves no assistant message in the history and posts no assistant message.
CleansToEmpty(t) ==
    /\ Returned(t)
    /\ Succeeded(t)
    /\ clean_response_text(RawReply(t)) = <<>>
EmptyReplyNotRecorded ==
    \A w \in ThreadIds :
        CleansToEmpty(threads[w]) =>
            TurnReply(w) = <<>> /\ ~Posted(threads[w], {"message"})

\* C10 as stated: the history is never empty, starts with the system message
\* and holds no other system message.
OneSystemMessageFirst ==
    /\ conversation_history # <<>>
    /\ conversation_history[1].role = "system"
    /\ \A i \in 2..Len(conversation_history) :
           conversation_history[i].role # "system"

\* C11 as stated: with the hosted provider selected and no API key configured,
\* no thread builds or sends a request (none goes to the local endpoint).
HostedWithoutKey == config.use_openai /\ config.openai_api_key = ""
NoRequestWithoutKey ==
    HostedWithoutKey =>
        \A w \in ThreadIds :
            threads[w].request = NoRequest /\ threads[w].outcome # "response"

\* C12 as stated: when the template lacks the {question} or the {answer}
\* field, or names another key, the history holds exactly one system message,
\* which is not empty and contains both the question and the answer.
HasField(tpl, field) == \E i \in 1..Len(tpl) : tpl[i] = field
Malformed(tpl) ==
    \/ ~HasField(tpl, "{question}")
    \/ ~HasField(tpl, "{answer}")
    \/ HasField(tpl, "{card}")
SystemMessages ==
    {i \in 1..Len(conversation_history) : conversation_history[i].role = "system"}
MalformedTemplateFallsBack ==
    Malformed(config.system_prompt) =>
        /\ SystemMessages = {1}
        /\ conversation_history[1].content # <<>>
        /\ Contains(conversation_history[1].content, question)
        /\ Contains(conversation_history[1].content, answer)

\* C13 as stated: once a send that ended in failure has returned and the
\* closures it posted have run, an error entry is in the display after the
\* turn's user entry, and the button is enabled or a later turn was sent.
Failed(t) ==
    /\ t.pc = "done"
    /\ \/ t.outcome \in PostExceptions \cup OtherExceptions
       \/ t.outcome = "response" /\ t.status # 200
ClosuresRun(w) == \A i \in 1..Len(main_queue) : main_queue[i].w # w
FailureShownInline ==
    \A w \in ThreadIds :
        (Failed(threads[w]) /\ ClosuresRun(w)) =>
            /\ ErrorShown(w)
            /\ send_enabled \/ started > w

\* C14: a click on the button with an empty or white-space-only text changes
\* neither the history nor the display, leaves the button enabled, starts no
\* thread and posts nothing; no user message and no entry of the user in the
\* display is blank.
Blank(text) == Strip(text) = <<>>
NoBlankTurn ==
    /\ \A i \in 1..Len(conversation_history) :
           IsUser(conversation_history[i]) => ~Blank(conversation_history[i].content)
    /\ \A i \in 1..Len(chat_display) :
           IsYou(chat_display[i]) => ~Blank(chat_display[i].text)
BlankSubmitIsNoOp ==
    /\ []NoBlankTurn
    /\ [][\A u \in UserInputs :
              (Blank(u) /\ send_message(u)) =>
                  /\ UNCHANGED <<conversation_history, chat_display,
                                 send_enabled, main_queue, threads, started,
                                 budget>>
                  /\ send_enabled']_vars
\* a white-space-only text was submitted after a turn had been completed
BlankSubmitAfterTurn ==
    /\ Blank(input_field)
    /\ input_field # <<>>
    /\ started = 1
    /\ Len(conversation_history) >= 2
    /\ send_enabled

\* C15: when a stream has ended normally, the deltas posted for it are the
\* non-empty contents of its well-formed data lines, in the order of the lines
\* (what is displayed followed by what is still queued), full_response is their
\* concatenation, and once the thread has left handle_stream_response the
\* assistant message of the turn is that concatenation, cleaned.
RECURSIVE Concat(_)
Concat(texts) == IF texts = <<>> THEN <<>> ELSE Head(texts) \o Concat(Tail(texts))
WellFormed(line) == line.form = "data" /\ line.payload = ContentPayload
ExpectedDeltas(lines) ==
    LET contents == [i \in 1..Len(lines) |->
                        IF WellFormed(lines[i]) THEN lines[i].content ELSE <<>>]
    IN SelectSeq(contents, LAMBDA content : content # <<>>)
QueuedDeltas(w) ==
    LET deltas == SelectSeq(main_queue, LAMBDA c : c.w = w /\ c.op = "delta")
    IN [i \in 1..Len(deltas) |-> deltas[i].text]
\* the text displayed after the marker of turn w
AppliedText(w) ==
    IF Queued(w, {"marker"}) \/ TurnBlocks(w) = <<>> THEN <<>>
    ELSE TurnBlocks(w)[1].text
EndedNormally(t) == t.outcome = "stream_end" /\ t.pc # "done"
DecoderYieldsDeltas ==
    \A w \in ThreadIds :
        LET t == threads[w]
            expected == ExpectedDeltas(t.lines)
        IN EndedNormally(t) =>
               /\ t.full_response = Concat(expected)
               /\ AppliedText(w) \o Concat(QueuedDeltas(w)) = Concat(expected)
               /\ \E k \in 0..Len(expected) :
                      QueuedDeltas(w) = SubSeq(expected, k + 1, Len(expected))
               /\ Returned(t) =>
                      TurnReply(w) =
                          IF expected = <<>> THEN <<>>
                          ELSE <<Message("assistant",
                                         clean_response_text(Concat(expected)))>>
\* a stream of three lines, two of them with a delta, ended and was recorded
TwoDeltasRecorded ==
    \E w \in ThreadIds :
        /\ EndedNormally(threads[w])
        /\ Returned(threads[w])
        /\ Len(threads[w].lines) = 3
        /\ ~WellFormed(threads[w].lines[2])
        /\ Len(ExpectedDeltas(threads[w].lines)) = 2
        /\ TurnReply(w) # <<>>

\* C16: a data line whose payload is not JSON neither ends the decoding nor
\* surfaces an error: whenever the lines read so far hold such a line, every
\* well-formed line before and after it has yielded its delta, and the loop
\* was left, and an error posted, only for another reason (the end of the
\* stream, a failure of the transport, or a payload that is JSON but no
\* object, which is then the last line read).
NotJson(line) == line.form = "data" /\ line.payload = "not-json"
JsonNoObject(line) == line.form = "data" /\ line.payload = "5"
MalformedLineSkipped ==
    \A w \in ThreadIds :
        LET t == threads[w]
            n == Len(t.lines)
        IN (\E i \in 1..n : NotJson(t.lines[i])) =>
               /\ t.full_response = Concat(ExpectedDeltas(t.lines))
               /\ t.pc = "iter_lines" \/
                      t.outcome \in {"stream_end", "ChunkedEncodingError", "TypeError"}
               /\ t.outcome = "TypeError" => JsonNoObject(t.lines[n])
               /\ Posted(t, {"error_streaming"}) =>
                      t.outcome \in {"ChunkedEncodingError", "TypeError"}
               /\ ~Posted(t, ErrorOps \ {"error_streaming"})
\* a stream whose first line is not JSON and whose second line has a delta has
\* ended with the delta recorded and no error
DeltaAfterMalformedLine ==
    \E w \in ThreadIds :
        /\ EndedNormally(threads[w])
        /\ Returned(threads[w])
        /\ Len(threads[w].lines) >= 2
        /\ NotJson(threads[w].lines[1])
        /\ WellFormed(threads[w].lines[2])
        /\ threads[w].full_response # <<>>
        /\ TurnReply(w) # <<>>
        /\ ~ErrorShown(w)
        /\ ~Queued(w, ErrorOps)

\* C17 as stated: every step that changes the history is a step of the main
\* thread, a click handled by send_message or a posted closure.
Foreground == (\E u \in UserInputs : send_message(u)) \/ run_on_main
OnlyForegroundWritesHistory ==
    [][conversation_history' # conversation_history => Foreground]_vars

\* C18 as stated: after the system message the history alternates user,
\* assistant, user, assistant, ...: no two neighbours have the same role.
AfterSystem ==
    IF conversation_history # <<>> /\ conversation_history[1].role = "system"
    THEN Tail(conversation_history) ELSE conversation_history
StrictAlternation ==
    \A i \in 1..Len(AfterSystem) :
        AfterSystem[i].role = IF i % 2 = 1 THEN "user" ELSE "assistant"

\* C19 as stated: no entry of the display and no assistant message of the
\* history holds a think span with its content.
HasThinkSpan(text) ==
    \E i, j \in 1..Len(text) :
        i + 1 < j /\ text[i] = ThinkOpen /\ text[j] = ThinkClose
ThinkSpanNeverShown ==
    /\ \A i \in 1..Len(chat_display) : ~HasThinkSpan(chat_display[i].text)
    /\ \A i \in 1..Len(conversation_history) :
           conversation_history[i].role = "assistant" =>
               ~HasThinkSpan(conversation_history[i].content)

\* C20: the closures of one turn wait in the queue in the order marker,
\* deltas, error, enable; nothing of the turn is displayed before its marker;
\* while the thread is in handle_stream_response or about to return, the text
\* displayed after the marker followed by the deltas still queued is
\* full_response (no delta lost, repeated or out of order); every delta that
\* is applied is added at the end of that text; and the button is enabled
\* only when no marker and no delta of the turn is queued any more.
Rank(op) ==
    CASE op = "marker" -> 0
      [] op = "delta" -> 1
      [] op = "enable" -> 3
      [] OTHER -> 2
InOrderQueued ==
    \A i, j \in 1..Len(main_queue) :
        (i < j /\ main_queue[i].w = main_queue[j].w) =>
            Rank(main_queue[i].op) <= Rank(main_queue[j].op)
InStream(t) == t.pc \in {"iter_lines", "finally", "enable_ok"}
InOrderApplied ==
    \A w \in ThreadIds :
        /\ (config.stream_responses /\ Queued(w, {"marker"})) => TurnBlocks(w) = <<>>
        /\ (config.stream_responses /\ InStream(threads[w])) =>
               AppliedText(w) \o Concat(QueuedDeltas(w)) = threads[w].full_response
        /\ (send_enabled /\ started = w) => ~Queued(w, {"marker", "delta"})
DeltaAppliedAtEnd ==
    (main_queue # <<>> /\ Head(main_queue).op = "delta"
         /\ main_queue' = Tail(main_queue)) =>
        \E i \in 1..Len(chat_display) :
            /\ chat_display[i].label = "Quiz"
            /\ chat_display' = [chat_display EXCEPT
                                    ![i].text = @ \o Head(main_queue).text]
UiEventsInOrder ==
    /\ [](InOrderQueued /\ InOrderApplied)
    /\ [][DeltaAppliedAtEnd]_vars
\* the two deltas of a stream are displayed in their order after the marker,
\* and the button is enabled again
TwoDeltasDisplayed ==
    /\ threads[1].pc = "done"
    /\ threads[1].outcome = "stream_end"
    /\ send_enabled
    /\ main_queue = <<>>
    /\ TurnBlocks(1) = <<Block("Quiz", <<"x", "\n">>)>>

\* C21 as stated: the request of every attempt carries the whole history as
\* it is then, with the system message first and the user message of the turn
\* last; the attempts of one send carry the same messages; and an attempt
\* that fails, and the wait after it, change neither the history nor the
\* button nor is_streaming.
CarriesHistory(w) ==
    LET t == threads[w]
        m == t.request.messages
    IN t.attempts >= 1 =>
           /\ m # <<>>
           /\ m[1].role = "system"
           /\ m[Len(m)].role = "user"
           /\ Cardinality(StartsOf(m, IsUser)) = w
           /\ t.pc \in {"post", "sleep", "break", "json", "iter_lines"} =>
                  m = conversation_history
SameMessages(w) ==
    threads'[w].attempts = threads[w].attempts + 1 =>
        /\ threads'[w].request.messages = conversation_history
        /\ threads[w].attempts >= 1 =>
               threads'[w].request.messages = threads[w].request.messages
FailureChangesNothing(w) ==
    (threads[w].pc \in {"post", "sleep"}
         /\ threads'[w].pc \in {"post", "sleep", "break", "enable_err"}) =>
        UNCHANGED <<conversation_history, send_enabled, is_streaming>>
AttemptsCarryFullHistory ==
    /\ [](\A w \in ThreadIds : CarriesHistory(w))
    /\ [][\A w \in ThreadIds : SameMessages(w) /\ FailureChangesNothing(w)]_vars

\* C22 as stated: every assistant message of the history is made of text the
\* backend sent as a reply or as a delta.
BackendText(text) ==
    \A k \in 1..Len(text) : text[k] \in Lexeme \cup DeltaLexeme
AssistantTextFromBackend ==
    \A i \in 1..Len(conversation_history) :
        conversation_history[i].role = "assistant" =>
            BackendText(conversation_history[i].content)

\* C23: a thread that has posted the marker or a delta is in
\* handle_stream_response or about to return, never waiting to retry nor
\* sending again: it has posted one marker, it sends no further request, and
\* the turn has at most one entry of the quiz in the display.
StreamStarted(t) == Posted(t, {"marker", "delta"})
Markers(t) == Cardinality({i \in 1..Len(t.posted) : t.posted[i] = "marker"})
QuizBlocks(w) ==
    Cardinality({i \in 1..Len(TurnBlocks(w)) : TurnBlocks(w)[i].label = "Quiz"})
NoRetryAfterStreamStarted ==
    /\ [](\A w \in ThreadIds :
              /\ StreamStarted(threads[w]) =>
                     /\ InStream(threads[w])
                     /\ Markers(threads[w]) = 1
              /\ QuizBlocks(w) <= 1)
    /\ [][\A w \in ThreadIds :
              StreamStarted(threads[w]) =>
                  threads'[w].attempts \in {threads[w].attempts, 0}]_vars
\* a stream broke after a delta while retries were left, and the thread is
\* about to return after its only attempt
BrokenStreamNotRetried ==
    \E w \in ThreadIds :
        /\ config.max_retries = 2
        /\ threads[w].outcome = "ChunkedEncodingError"
        /\ Posted(threads[w], {"delta"})
        /\ threads[w].pc = "enable_ok"
        /\ threads[w].attempts = 1

\* C24: when a thread whose turn produced assistant text (a delta or a message
\* posted, queued or displayed) is about to post the enabling closure, or has
\* posted it, the assistant message of the turn is in the history; and the
\* request of the next turn carries that message just before its user message.
ReplyProduced(w) ==
    \/ Posted(threads[w], {"delta", "message"})
    \/ Queued(w, {"delta", "message"})
    \/ \E i \in 1..Len(TurnBlocks(w)) :
           TurnBlocks(w)[i].label = "Quiz" /\ TurnBlocks(w)[i].text # <<>>
ReplyRecorded(w) ==
    Len(TurnReply(w)) = 1 /\ TurnReply(w)[1].role = "assistant"
ReplyInHistoryBeforeEnable ==
    \A w \in ThreadIds :
        /\ (ReplyProduced(w) /\ (Returned(threads[w]) \/ threads[w].pc = "done")) =>
               ReplyRecorded(w)
        /\ (w > 1 /\ threads[w].attempts >= 1 /\ ReplyProduced(w - 1)) =>
               LET m == threads[w].request.messages
               IN /\ Len(m) >= 3
                  /\ m[Len(m)].role = "user"
                  /\ <<m[Len(m) - 1]>> = TurnReply(w - 1)
\* the request of a second turn carries the reply to the first
SecondRequestCarriesReply ==
    /\ ReplyProduced(1)
    /\ threads[2].attempts = 1
    /\ threads[2].request.messages[Len(threads[2].request.messages) - 1].role
           = "assistant"

\* C25 as stated: a thread that is about to post the enabling closure has sent
\* at least one request and has posted a delta, an assistant message or an
\* error for its turn.
ResolvedAudibly(t) ==
    /\ t.attempts >= 1
    /\ Posted(t, {"delta", "message"} \cup ErrorOps)
NoSilentResolution ==
    \A w \in ThreadIds : Returned(threads[w]) => ResolvedAudibly(threads[w])

====
